---- MODULE Spec2Model ----
(***************************************************************************)
(* Procure2Pay: the approval state machine of a PurchaseRequest, its      *)
(* ApprovalSteps, the approve / reject / update endpoints, the            *)
(* notifications sent from inside the state transitions and the purchase  *)
(* order generated on final approval.                                     *)
(*                                                                         *)
(* One PurchaseRequest row (db) and its ApprovalStep rows (steps) are the *)
(* committed database.  Each process is one caller (an HTTP request or a  *)
(* thread calling the model methods); it holds an in-memory model         *)
(* instance (obj), the local variables of the method it runs, and the     *)
(* uncommitted writes of its database transaction (txw).                  *)
(***************************************************************************)
EXTENDS Integers, Sequences, FiniteSets, TLC

VARIABLES
    db,             \* the committed PurchaseRequest row
    steps,          \* the committed ApprovalStep rows: level -> row
    bare,           \* the rows of the same request created without steps
    outbox,         \* notifications that left the system (email, WebSocket)
    poFiles,        \* purchase-order files written to storage
    pc,             \* each caller's position
    op,             \* the operation each caller runs
    via,            \* "api" (the view) or "model" (the model method directly)
    actor,          \* request.user / the approver argument
    comment,        \* the comment / reason / new title sent by the caller
    ref,            \* whose in-memory instance the caller operates on
    obj,            \* the in-memory PurchaseRequest instances
    level,          \* the local variable `level` of mark_approved
    txw,            \* the open transaction's uncommitted writes
    result,         \* what the operation reported to its caller
    nfail,          \* the notification step that failed in this operation
    nops,           \* operations started so far
    docs,           \* the document columns of the PurchaseRequest row
    storage,        \* the purchase-order files in the file storage
    validation_results, \* the ReceiptValidationResult rows of the request
    clock,          \* the current instant
    upload,         \* the receipt file each caller sent
    payload,        \* the local variable validation_payload
    extracted       \* the extraction functions validate_receipt has run

wvars == <<db, steps, bare, outbox, poFiles, pc, op, via, actor,
           comment, ref, obj, level, txw, result, nfail, nops>>

dvars == <<docs, storage, validation_results, clock, upload, payload, extracted>>

vars == <<wvars, dvars>>

----------------------------------------------------------------------------
(* Bounds and program constants *)

MaxOps == 3

MaxClock == 3

TicksPerDay == 2

Procs == {"p1", "p2"}

Comments == {"c"}

Titles == {"t0", "t1"}

WORKFLOW_ROLES == <<"APPROVER_L1", "APPROVER_L2">>

Roles == [staff |-> "STAFF", l1 |-> "APPROVER_L1", l2 |-> "APPROVER_L2"]

Users == DOMAIN Roles

Approvers == {u \in Users : Roles[u] \in {"APPROVER_L1", "APPROVER_L2"}}

NoUser == "none"

Owner == "staff"

required_approval_levels == Len(WORKFLOW_ROLES)

Terminal == {"APPROVED", "REJECTED"}

Decisions == {"approve", "reject"}

WrongLevel ==
    {"PermissionDenied: wait for L1", "PermissionDenied: requires L2",
     "PermissionDenied: not the expected approver"}

DomainErrors ==
    {"ValueError", "ValidationError", "PermissionDenied", "NotFound"} \cup WrongLevel

----------------------------------------------------------------------------
(* Pure helpers *)

\* mutant: only APPROVED counts as terminal
is_terminal_ApprovedOnly(o) == o.status = "APPROVED"

is_terminal(o) == o.status \in Terminal

\* mutant: the first role of the workflow is required at every level
next_required_role_First(o) == WORKFLOW_ROLES[1]

next_required_role(o) ==
    LET idx == o.current_approval_level - 1
    IN  IF idx < Len(WORKFLOW_ROLES) THEN WORKFLOW_ROLES[idx + 1] ELSE "None"

UpdateFields(o, fields) == [f \in fields |-> o[f]]

ApplyRow(row, w) == [f \in DOMAIN row |-> IF f \in DOMAIN w THEN w[f] ELSE row[f]]

\* mutant: update_or_create updates the rows that exist and creates none
ApplySteps_ExistingOnly(s, w) ==
    [k \in DOMAIN s |-> IF k \in DOMAIN w THEN w[k] ELSE s[k]]

\* update_or_create on the ApprovalStep rows: a row that exists is updated,
\* a row that is absent is created
ApplySteps(s, w) ==
    [k \in DOMAIN s \cup DOMAIN w |-> IF k \in DOMAIN w THEN w[k] ELSE s[k]]

EmptyFn == [x \in {} |-> x]

EmptyTx == [steps |-> EmptyFn, row |-> EmptyFn]

\* the ApprovalStep rows that carry a decision
DecidedSteps(s) == [k \in {j \in DOMAIN s : s[j].decision # "PENDING"} |-> s[k]]

NoMetadata == [key |-> "", text |-> ""]

PendingStep == [decision |-> "PENDING", approver |-> NoUser, metadata |-> NoMetadata]

SeededSteps == [k \in 1..required_approval_levels |-> PendingStep]

NewRequest ==
    [status |-> "PENDING", current_approval_level |-> 1, approved_by |-> NoUser,
     created_by |-> Owner, title |-> "t0", purchase_order_metadata |-> "{}"]

MergeFn(w1, w2) ==
    [f \in DOMAIN w1 \cup DOMAIN w2 |-> IF f \in DOMAIN w2 THEN w2[f] ELSE w1[f]]

\* get_permissions: IsApprover for approve/reject, IsStaff for update
HasPermission(o, u) ==
    IF o \in Decisions
    THEN Roles[u] \in {"APPROVER_L1", "APPROVER_L2"}
    ELSE Roles[u] = "STAFF"

\* get_queryset: the rows get_object can find for this user
Visible(row, u) ==
    CASE Roles[u] = "STAFF" -> row.created_by = u
      [] Roles[u] \in {"APPROVER_L1", "APPROVER_L2"} -> row.status = "PENDING"
      [] OTHER -> TRUE

\* mutant: any approver role passes the role check
RoleAllowed_AnyApprover(u, o) == Roles[u] \in {"APPROVER_L1", "APPROVER_L2"}

\* the role check of the approve and reject views
RoleAllowed(u, o) == Roles[u] = next_required_role(o)

\* the PermissionDenied the approve and reject views raise on a wrong role
ViewDenial(u, o) ==
    IF Roles[u] = "APPROVER_L2" /\ next_required_role(o) = "APPROVER_L1"
    THEN "PermissionDenied: wait for L1"
    ELSE IF Roles[u] = "APPROVER_L1" /\ next_required_role(o) = "APPROVER_L2"
    THEN "PermissionDenied: requires L2"
    ELSE "PermissionDenied: not the expected approver"

\* mutant: the level is incremented on the final approval too
ApprovedObj_AlwaysIncrement(o, lvl, u) ==
    IF lvl >= required_approval_levels
    THEN [o EXCEPT !.status = "APPROVED", !.approved_by = u,
                   !.current_approval_level = @ + 1]
    ELSE [o EXCEPT !.current_approval_level = @ + 1]

\* mutant: no approval is final, the level is always incremented
ApprovedObj_NeverFinal(o, lvl, u) == [o EXCEPT !.current_approval_level = @ + 1]

\* the in-memory instance after mark_approved's branch on `level`
ApprovedObj(o, lvl, u) ==
    IF lvl >= required_approval_levels
    THEN [o EXCEPT !.status = "APPROVED", !.approved_by = u]
    ELSE [o EXCEPT !.current_approval_level = @ + 1]

\* mutant: mark_rejected leaves approved_by as it was
RejectedObj_NoActor(o, u) == [o EXCEPT !.status = "REJECTED"]

\* the in-memory instance after mark_rejected's assignments
RejectedObj(o, u) == [o EXCEPT !.status = "REJECTED", !.approved_by = u]

\* mutant: the approval leaves the step's decision PENDING
ApproveStepWrites_Undecided(lvl, u, c) ==
    lvl :> [decision |-> "PENDING", approver |-> u,
            metadata |-> [key |-> "comment", text |-> c]]

\* update_or_create(request, level, defaults) of mark_approved
ApproveStepWrites(lvl, u, c) ==
    lvl :> [decision |-> "APPROVED", approver |-> u,
            metadata |-> [key |-> "comment", text |-> c]]

\* mutant: the rejection is recorded on the current and every later level
RejectStepWrites_AllRemaining(lvl, u, c) ==
    [k \in lvl..required_approval_levels |->
        [decision |-> "REJECTED", approver |-> u,
         metadata |-> [key |-> "reason", text |-> c]]]

\* update_or_create(request, level, defaults) of mark_rejected
RejectStepWrites(lvl, u, c) ==
    lvl :> [decision |-> "REJECTED", approver |-> u,
            metadata |-> [key |-> "reason", text |-> c]]

\* what a notification sent by this operation reports
Note(o, kind) ==
    IF kind = "reject"
    THEN [event |-> "rejected", level |-> o.current_approval_level]
    ELSE IF o.status = "APPROVED"
         THEN [event |-> "fully-approved", level |-> o.current_approval_level]
         ELSE [event |-> "level-approved", level |-> o.current_approval_level - 1]

----------------------------------------------------------------------------
(* Documents: texts, decimals and validate_receipt.                         *)
(* A text is a sequence of characters; a number written in a text is        *)
(* [coef, exp, grouped]: the digits of coef with exp decimals, with or      *)
(* without thousands separators ("1,050.00" is [105000, 2, TRUE]).          *)

\* str.lower()
lower(s) ==
    [i \in 1..Len(s) |->
        CASE s[i] = "A" -> "a" [] s[i] = "B" -> "b"
          [] s[i] = "U" -> "u" [] s[i] = "V" -> "v" [] OTHER -> s[i]]

\* str.strip()
strip(s) ==
    LET inked == {i \in 1..Len(s) : s[i] # " "}
    IN  IF inked = {} THEN <<>>
        ELSE SubSeq(s, CHOOSE i \in inked : \A j \in inked : i <= j,
                       CHOOSE i \in inked : \A j \in inked : i >= j)

RECURSIVE Pow10(_)
Pow10(n) == IF n = 0 THEN 1 ELSE 10 * Pow10(n - 1)

\* target.replace(",", "")
RemoveCommas(n) == [n EXCEPT !.grouped = FALSE]

\* Decimal(text) of a number written without separators: the exact value,
\* keeping the written scale
Decimal(n) == [coef |-> n.coef, exp |-> n.exp]

\* str(a Decimal)
str(d) == [coef |-> d.coef, exp |-> d.exp, grouped |-> FALSE]

\* mutant: two amounts are equal only when they are written the same way
DecimalEq_Textual(a, b) == a = b

\* Decimal == Decimal: equality of the values, whatever the scale
DecimalEq(a, b) == a.coef * Pow10(b.exp) = b.coef * Pow10(a.exp)

EmptyDict == EmptyFn

\* dict.get(key, default)
Get(d, k, default) == IF k \in DOMAIN d THEN d[k] ELSE default

\* a number as it is written in a text
Num(c, e, g) == [coef |-> c, exp |-> e, grouped |-> g]

\* the text "0"
Zero == Num(0, 0, FALSE)

\* the text of a document: what the patterns of validate_receipt find in it
\* (the value after the vendor label, the number after the total label, the
\* item lines) and what the AI extraction answers when it is asked
EmptyText == [vendor |-> <<>>, total |-> <<>>, items |-> <<>>, ai_items |-> <<>>]

\* a FileField without a file: its name is empty and it is falsy
NoFile == [name |-> "", text |-> EmptyText]

\* _extract_text: the text of the uploaded file
_extract_text(f) == IF f.name = "" THEN EmptyText ELSE f.text

\* re.search of the vendor pattern: no match, or the captured group
vendor_match(text) == text.vendor

\* _extract_number_from_text with the total pattern: None (the empty
\* sequence) or the Decimal of the captured number without its commas
_extract_number_from_text(text) ==
    IF text.total = <<>> THEN <<>> ELSE <<Decimal(RemoveCommas(text.total[1]))>>

\* _extract_items_from_text: the items the patterns find, else the AI's answer
_extract_items_from_text(text) ==
    IF text.items # <<>> THEN text.items ELSE text.ai_items

\* the extraction functions one call of validate_receipt on this file runs
ExtractionCalls(text) ==
    {"text", "regex"} \cup (IF text.items = <<>> THEN {"ai"} ELSE {})

\* `not receipt_file or not po_metadata`
MissingInput(receipt_file, po_metadata) ==
    receipt_file.name = "" \/ DOMAIN po_metadata = {}

\* mutant: the missing-input result carries no mismatch
MissingResult_NoReason ==
    [is_valid |-> FALSE, mismatches |-> EmptyDict]

\* the result of validate_receipt when an input is missing
MissingResult ==
    [is_valid |-> FALSE,
     mismatches |-> [reason |-> "Missing receipt or PO metadata."]]

\* the vendor entry of mismatches
VendorMismatch(text, po_metadata) ==
    IF vendor_match(text) # <<>>
       /\ lower(strip(vendor_match(text)[1])) # lower(Get(po_metadata, "vendor", <<>>))
    THEN "vendor" :> [expected |-> po_metadata.vendor,
                      actual |-> strip(vendor_match(text)[1])]
    ELSE EmptyDict

\* the amount entry of mismatches
AmountMismatch(text, po_metadata) ==
    LET total == _extract_number_from_text(text)
    IN  IF total # <<>>
           /\ ~DecimalEq(Decimal(str(total[1])),
                       Decimal(Get(po_metadata, "total_amount", Zero)))
        THEN "amount" :> [expected |-> po_metadata.total_amount,
                          actual |-> str(total[1])]
        ELSE EmptyDict

\* mutant: the description is compared as written
ItemMatches_ExactDescription(po_item, rec_item) ==
    /\ po_item.description = rec_item.description
    /\ po_item.quantity = rec_item.quantity
    /\ DecimalEq(Decimal(po_item.unit_price), Decimal(str(rec_item.unit_price)))

\* the match condition of the item comparison
ItemMatches(po_item, rec_item) ==
    /\ strip(lower(po_item.description)) = strip(lower(rec_item.description))
    /\ po_item.quantity = rec_item.quantity
    /\ DecimalEq(Decimal(po_item.unit_price), Decimal(str(rec_item.unit_price)))

\* item_mismatches: one entry per PO item without a match, in PO order
RECURSIVE ItemMismatches(_, _)
ItemMismatches(po_items, receipt_items) ==
    IF po_items = <<>> THEN <<>>
    ELSE (IF \E i \in 1..Len(receipt_items) : ItemMatches(Head(po_items), receipt_items[i])
          THEN <<>>
          ELSE <<[expected |-> Head(po_items), reason |-> "No matching item in receipt"]>>)
         \o ItemMismatches(Tail(po_items), receipt_items)

\* the items entry of mismatches
ItemsMismatch(text, po_metadata) ==
    LET po_items == Get(po_metadata, "items", <<>>)
        receipt_items == _extract_items_from_text(text)
    IN  IF po_items # <<>> /\ receipt_items # <<>>
        THEN IF ItemMismatches(po_items, receipt_items) # <<>>
             THEN "items" :> ItemMismatches(po_items, receipt_items)
             ELSE EmptyDict
        ELSE IF po_items # <<>>
        THEN "items" :> <<[reason |-> "No items found in receipt"]>>
        ELSE EmptyDict

\* validate_receipt(receipt_file, po_metadata)
validate_receipt(receipt_file, po_metadata) ==
    IF MissingInput(receipt_file, po_metadata)
    THEN MissingResult
    ELSE LET text == _extract_text(receipt_file)
             mismatches == VendorMismatch(text, po_metadata)
                           @@ AmountMismatch(text, po_metadata)
                           @@ ItemsMismatch(text, po_metadata)
         IN  [is_valid |-> DOMAIN mismatches = {}, mismatches |-> mismatches]

\* the extraction functions validate_receipt runs on these inputs
validate_receipt_calls(receipt_file, po_metadata) ==
    IF MissingInput(receipt_file, po_metadata)
    THEN {}
    ELSE ExtractionCalls(_extract_text(receipt_file))

----------------------------------------------------------------------------
(* Documents: the purchase order *)

UnknownVendor == <<"U", "n", "k", "n", "o", "w", "n", " ", "V", "e", "n", "d", "o", "r">>

\* the date of an instant
Date(now) == now \div TicksPerDay

\* mutant: the number is derived from the instant, not from its date
po_number_OfInstant(now, id) == [date |-> now, prefix |-> id.head]

\* f"PO-{datetime.utcnow():%Y%m%d}-{str(request_obj.id)[:8]}"
po_number(now, id) == [date |-> Date(now), prefix |-> id.head]

\* the request's own line items as purchase-order items
LineItems(its) ==
    [i \in 1..Len(its) |->
        [description |-> its[i].description, quantity |-> its[i].quantity,
         unit_price |-> str(its[i].unit_price)]]

\* po_data of generate_purchase_order
po_data(d, now) ==
    LET metadata == d.proforma_metadata
    IN  [po_number |-> po_number(now, d.id),
         vendor |-> Get(metadata, "vendor", UnknownVendor),
         currency |-> Get(metadata, "currency", "USD"),
         total_amount |-> Get(metadata, "total_amount", str(d.amount)),
         generated_at |-> now,
         items |-> Get(metadata, "items", LineItems(d.items))]

\* Storage.save(name, content): the name if it is free, else the name with a
\* suffix that makes it new
available_name(files, base) ==
    [base |-> base, n |-> Cardinality({f \in files : f.base = base})]

\* the document columns of the request after generate_purchase_order
generate_purchase_order(d, files, now) ==
    [d EXCEPT !.purchase_order = <<available_name(files, po_data(d, now).po_number)>>,
              !.purchase_order_metadata = po_data(d, now)]

\* ReceiptValidationResult.objects.update_or_create(request=..., defaults=...)
update_or_create(rows, defaults) ==
    IF rows = <<>> THEN <<defaults>> ELSE [rows EXCEPT ![1] = defaults]

\* the defaults of the update_or_create in ReceiptUploadSerializer.save
ResultRow(validation_payload) ==
    [is_valid |-> Get(validation_payload, "is_valid", FALSE),
     mismatches |-> Get(validation_payload, "mismatches", EmptyDict)]

----------------------------------------------------------------------------
(* Documents: the bounded sets of requests, purchase orders and receipts *)

RequestId == [head |-> "0a1b2c3d", tail |-> "-4e5f"]

\* RequestItem rows: description, quantity, unit_price (a Decimal)
RequestItemLists ==
    {<<>>,
     <<[description |-> <<"a">>, quantity |-> 1, unit_price |-> [coef |-> 1000, exp |-> 2]]>>}

\* the items a proforma extraction stored: "A " x1 @ 10.00, "b" x2 @ 5
ProformaItemLists ==
    {<<>>,
     <<[description |-> <<"A", " ">>, quantity |-> 1, unit_price |-> Num(1000, 2, FALSE)]>>,
     <<[description |-> <<"A", " ">>, quantity |-> 1, unit_price |-> Num(1000, 2, FALSE)],
       [description |-> <<"b">>, quantity |-> 2, unit_price |-> Num(5, 0, FALSE)]>>}

\* proforma_metadata: {} without a proforma, else what extract_proforma_metadata
\* stored (the AI path stores the vendor as the AI wrote it)
ProformaMetadatas ==
    {EmptyDict} \cup
    [vendor : {<<"A">>, <<" ", "a">>}, currency : {"USD"},
     total_amount : {Num(100000, 2, FALSE), Num(1050, 0, FALSE)},
     items : ProformaItemLists]

\* the document columns of a request that has no purchase order yet
DocInputs ==
    [id : {RequestId}, amount : {[coef |-> 100000, exp |-> 2]},
     proforma_metadata : ProformaMetadatas, items : RequestItemLists,
     purchase_order : {<<>>}, purchase_order_metadata : {EmptyDict},
     receipt : {NoFile}, receipt_validation : {EmptyDict}]

\* the document columns of a request created without proforma and items
NewDocs ==
    [id |-> RequestId, amount |-> [coef |-> 100000, exp |-> 2],
     proforma_metadata |-> EmptyDict, items |-> <<>>,
     purchase_order |-> <<>>, purchase_order_metadata |-> EmptyDict,
     receipt |-> NoFile, receipt_validation |-> EmptyDict]

\* purchase_order_metadata as a test sets it by hand: vendor and total only
PartialPO == [vendor |-> <<"A">>, total_amount |-> Num(1000, 0, FALSE)]

\* the items found in a receipt: "a" x1 @ 10.0, "b" x2 @ 5.00, "b" x3 @ 5
ReceiptItemLists ==
    {<<>>,
     <<[description |-> <<"a">>, quantity |-> 1, unit_price |-> [coef |-> 100, exp |-> 1]]>>,
     <<[description |-> <<"a">>, quantity |-> 1, unit_price |-> [coef |-> 100, exp |-> 1]],
       [description |-> <<"b">>, quantity |-> 2, unit_price |-> [coef |-> 500, exp |-> 2]]>>,
     <<[description |-> <<"b">>, quantity |-> 3, unit_price |-> [coef |-> 5, exp |-> 0]]>>}

\* what the AI extraction answers: nothing, or " a" x1 @ 10
AiItemLists ==
    {<<>>,
     <<[description |-> <<" ", "a">>, quantity |-> 1, unit_price |-> [coef |-> 10, exp |-> 0]]>>}

\* receipt texts: no vendor label or "a", "A ", "b"; no total or "1000",
\* "1000.00", "1,050.00", "999.50"
ReceiptTexts ==
    [vendor : {<<>>, << <<"a">> >>, << <<"A", " ">> >>, << <<"b">> >>},
     total : {<<>>, <<Num(1000, 0, FALSE)>>, <<Num(100000, 2, FALSE)>>,
              <<Num(105000, 2, TRUE)>>, <<Num(99950, 2, FALSE)>>},
     items : ReceiptItemLists, ai_items : AiItemLists]

ReceiptFiles == {[name |-> "receipt.pdf", text |-> t] : t \in ReceiptTexts}

----------------------------------------------------------------------------
(* State *)

\* the request and its callers before any operation
InitWorkflow ==
    /\ db = NewRequest
    /\ steps = SeededSteps
    /\ bare = EmptyFn
    /\ outbox = {}
    /\ poFiles = 0
    /\ pc = [p \in Procs |-> "idle"]
    /\ op = [p \in Procs |-> "none"]
    /\ via = [p \in Procs |-> "model"]
    /\ actor = [p \in Procs |-> NoUser]
    /\ comment = [p \in Procs |-> ""]
    /\ ref = [p \in Procs |-> p]
    /\ obj = [p \in Procs |-> NewRequest]
    /\ level = [p \in Procs |-> 0]
    /\ txw = [p \in Procs |-> EmptyTx]
    /\ result = [p \in Procs |-> "none"]
    /\ nfail = [p \in Procs |-> "none"]
    /\ nops = 0

\* no caller has sent a file or validated one
InitCalls ==
    /\ upload = [p \in Procs |-> NoFile]
    /\ payload = [p \in Procs |-> EmptyDict]
    /\ extracted = [p \in Procs |-> {}]

Init ==
    /\ InitWorkflow
    /\ InitCalls
    /\ docs = NewDocs
    /\ storage = {}
    /\ validation_results = <<>>
    /\ clock = 0

Me(p) == obj[ref[p]]

InCall == {"check", "level", "step", "save", "notify", "po", "commit"}

\* another open transaction has written ApprovalStep row k: the row stays
\* locked until that transaction ends
StepLocked(p, k) == \E q \in Procs \ {p} : k \in DOMAIN txw[q].steps

\* another open transaction has written the PurchaseRequest row
RowLocked(p) == \E q \in Procs \ {p} : DOMAIN txw[q].row # {}

Quiescent == \A q \in Procs : pc[q] = "idle"

\* the instances once caller p has returned: an instance no caller holds any
\* more is gone (its slot is blank again)
Released(p, objs) ==
    IF \E q \in Procs \ {p} : pc[q] # "idle" /\ ref[q] = ref[p]
    THEN objs
    ELSE [objs EXCEPT ![ref[p]] = NewRequest]

\* the operation ends and reports r to its caller; an open transaction is
\* rolled back and the method's locals are gone
Finish(p, r) ==
    /\ pc' = [pc EXCEPT ![p] = "idle"]
    /\ result' = [result EXCEPT ![p] = r]
    /\ txw' = [txw EXCEPT ![p] = EmptyTx]
    /\ level' = [level EXCEPT ![p] = 0]
    /\ via' = [via EXCEPT ![p] = "model"]
    /\ actor' = [actor EXCEPT ![p] = NoUser]
    /\ comment' = [comment EXCEPT ![p] = ""]
    /\ ref' = [ref EXCEPT ![p] = p]
    /\ op' = [op EXCEPT ![p] = "none"]

\* the operation goes on to position l
Goto(p, l) ==
    /\ pc' = [pc EXCEPT ![p] = l]
    /\ UNCHANGED <<result, via, actor, comment, ref, op>>

----------------------------------------------------------------------------
(* Operations *)

\* A caller begins an operation: o on the instance held in slot r, entering
\* at position l.
Begin(p, o, v, u, c, r, l) ==
    /\ pc[p] = "idle"
    /\ nops < MaxOps
    /\ nops' = nops + 1
    /\ pc' = [pc EXCEPT ![p] = l]
    /\ op' = [op EXCEPT ![p] = o]
    /\ via' = [via EXCEPT ![p] = v]
    /\ actor' = [actor EXCEPT ![p] = u]
    /\ comment' = [comment EXCEPT ![p] = c]
    /\ ref' = [ref EXCEPT ![p] = r]
    /\ result' = [result EXCEPT ![p] = "none"]
    /\ nfail' = [nfail EXCEPT ![p] = "none"]
    /\ UNCHANGED <<db, steps, bare, outbox, poFiles, obj, level, txw>>

\* An HTTP request to the approve, reject or update endpoint.
StartApi(p) ==
    \/ \E o \in Decisions, u \in Users, c \in Comments :
           Begin(p, o, "api", u, c, p, "load") /\ UNCHANGED dvars
    \/ \E u \in Users, c \in Titles :
           Begin(p, "update", "api", u, c, p, "load") /\ UNCHANGED dvars

\* A direct call of mark_approved / mark_rejected on a freshly fetched instance.
StartModel(p) ==
    \E o \in Decisions, u \in Approvers, c \in Comments :
        Begin(p, o, "model", u, c, p, "load") /\ UNCHANGED dvars

\* A second thread calls mark_approved / mark_rejected on the instance another
\* thread is already operating on (no fetch of its own).
StartShared(p) ==
    \E q \in Procs \ {p}, o \in Decisions, u \in Approvers, c \in Comments :
        /\ pc[q] \in InCall
        /\ via[q] = "model"
        /\ Begin(p, o, "model", u, c, ref[q], "check")
        /\ UNCHANGED dvars

\* The permission classes, then get_object() through get_queryset(); a direct
\* caller of the model fetches the row without any filter.
Load(p) ==
    /\ pc[p] = "load"
    /\ IF via[p] = "api" /\ ~HasPermission(op[p], actor[p])
       THEN Finish(p, "PermissionDenied") /\ UNCHANGED obj
       ELSE IF via[p] = "api" /\ ~Visible(db, actor[p])
       THEN Finish(p, "NotFound") /\ UNCHANGED obj
       ELSE /\ obj' = [obj EXCEPT ![p] = db]
            /\ Goto(p, IF via[p] = "api" THEN "perm" ELSE "check")
            /\ UNCHANGED <<txw, level>>
    /\ UNCHANGED <<db, steps, bare, outbox, poFiles, nfail, nops>>
    /\ UNCHANGED dvars

\* The approve / reject view up to the transaction: finalized check, role check.
ViewCheck(p) ==
    /\ pc[p] = "perm"
    /\ op[p] \in Decisions
    /\ IF is_terminal(Me(p))
       THEN Finish(p, "ValidationError") /\ obj' = Released(p, obj)
       ELSE IF ~RoleAllowed(actor[p], Me(p))
       THEN Finish(p, ViewDenial(actor[p], Me(p))) /\ obj' = Released(p, obj)
       ELSE Goto(p, "check") /\ UNCHANGED <<txw, level, obj>>
    /\ UNCHANGED <<db, steps, bare, outbox, poFiles, nfail, nops>>
    /\ UNCHANGED dvars

\* the fetched instance after update() has set the validated attributes
UpdatedObj(o, t) == [o EXCEPT !.title = t]

\* the line items an update sends: the serializer takes no empty list
ItemsData == RequestItemLists \ {<<>>}

\* mutant: the update is refused to other users only
PerformUpdate_OwnerOnly(p) ==
    /\ pc[p] = "perm"
    /\ op[p] = "update"
    /\ Me(p).created_by = actor[p] => ~RowLocked(p)
    /\ IF Me(p).created_by # actor[p]
       THEN Finish(p, "PermissionDenied") /\ UNCHANGED <<db, docs>>
       ELSE /\ db' = UpdatedObj(Me(p), comment[p])
            /\ \E items_data \in ItemsData : docs' = [docs EXCEPT !.items = items_data]
            /\ Finish(p, "ok")
    /\ obj' = Released(p, obj)
    /\ UNCHANGED <<steps, bare, outbox, poFiles, nfail, nops>>
    /\ UNCHANGED <<storage, validation_results, clock, upload, payload, extracted>>

\* PurchaseRequestWriteSerializer.validate, perform_update and update():
\* the attributes are set on the fetched instance, instance.save() writes
\* every column of the row, and the RequestItems are deleted and created
\* again from the items sent.
PerformUpdate(p) ==
    /\ pc[p] = "perm"
    /\ op[p] = "update"
    /\ ~is_terminal(Me(p)) /\ Me(p).created_by = actor[p] => ~RowLocked(p)
    /\ IF is_terminal(Me(p))
       THEN Finish(p, "ValidationError") /\ UNCHANGED <<db, docs>>
       ELSE IF Me(p).created_by # actor[p]
       THEN Finish(p, "PermissionDenied") /\ UNCHANGED <<db, docs>>
       ELSE IF Me(p).status # "PENDING"
       THEN Finish(p, "ValidationError") /\ UNCHANGED <<db, docs>>
       ELSE /\ db' = UpdatedObj(Me(p), comment[p])
            /\ \E items_data \in ItemsData : docs' = [docs EXCEPT !.items = items_data]
            /\ Finish(p, "ok")
    /\ obj' = Released(p, obj)
    /\ UNCHANGED <<steps, bare, outbox, poFiles, nfail, nops>>
    /\ UNCHANGED <<storage, validation_results, clock, upload, payload, extracted>>

\* Entry of mark_approved / mark_rejected: the transaction opens and a
\* terminal instance raises ValueError.
Check(p) ==
    /\ pc[p] = "check"
    /\ IF is_terminal(Me(p))
       THEN Finish(p, "ValueError") /\ obj' = Released(p, obj)
       ELSE Goto(p, "level") /\ UNCHANGED <<txw, level, obj>>
    /\ UNCHANGED <<db, steps, bare, outbox, poFiles, nfail, nops>>
    /\ UNCHANGED dvars

\* level = self.current_approval_level (mark_rejected reads it as the
\* argument of update_or_create)
ReadLevel(p) ==
    /\ pc[p] = "level"
    /\ level' = [level EXCEPT ![p] = Me(p).current_approval_level]
    /\ Goto(p, "step")
    /\ UNCHANGED <<db, steps, bare, outbox, poFiles, obj, txw, nfail, nops>>
    /\ UNCHANGED dvars

\* the step rows written by update_or_create in the open transaction
StepWrites(p) ==
    IF op[p] = "approve"
    THEN ApproveStepWrites(level[p], actor[p], comment[p])
    ELSE RejectStepWrites(level[p], actor[p], comment[p])

\* mutant: the step row is written outside the transaction
WriteStep_Autocommit(p) ==
    /\ pc[p] = "step"
    /\ ~StepLocked(p, level[p])
    /\ steps' = ApplySteps(steps, StepWrites(p))
    /\ bare' = ApplySteps(bare, StepWrites(p))
    /\ Goto(p, "save")
    /\ UNCHANGED <<db, txw, level, outbox, poFiles, obj, nfail, nops>>
    /\ UNCHANGED dvars

\* ApprovalStep.objects.update_or_create(request=self, level=level, ...):
\* waits while another transaction holds the row
WriteStep(p) ==
    /\ pc[p] = "step"
    /\ ~StepLocked(p, level[p])
    /\ txw' = [txw EXCEPT ![p].steps = MergeFn(@, StepWrites(p))]
    /\ Goto(p, "save")
    /\ UNCHANGED <<db, steps, bare, outbox, poFiles, obj, level, nfail, nops>>
    /\ UNCHANGED dvars

\* update_fields of the save() in mark_approved / mark_rejected
SavedFields(o) ==
    IF o = "approve"
    THEN {"current_approval_level", "status", "approved_by"}
    ELSE {"status", "approved_by"}

\* The assignments to self and self.save(update_fields=[...]), which waits
\* while another transaction holds the row
Save(p) ==
    /\ pc[p] = "save"
    /\ ~RowLocked(p)
    /\ LET o2 == IF op[p] = "approve"
                 THEN ApprovedObj(Me(p), level[p], actor[p])
                 ELSE RejectedObj(Me(p), actor[p])
       IN  /\ obj' = [obj EXCEPT ![ref[p]] = o2]
           /\ txw' = [txw EXCEPT ![p].row = MergeFn(@, UpdateFields(o2, SavedFields(op[p])))]
    /\ Goto(p, "notify")
    /\ UNCHANGED <<db, steps, bare, outbox, poFiles, level, nfail, nops>>
    /\ UNCHANGED dvars

\* where the caller goes after the notifications: the approve view generates
\* the purchase order when the instance is APPROVED
AfterNotify(p) ==
    IF via[p] = "api" /\ op[p] = "approve" /\ Me(p).status = "APPROVED"
    THEN "po" ELSE "commit"

\* The notifications, sent from inside the atomic block:
\* send_approval_notification / send_rejection_notification (the email to the
\* requester is sent, or its failure is caught and logged), then
\* notify_request_approved / notify_request_rejected (Notification rows are
\* created, an error there is not caught; each is pushed over the WebSocket,
\* an error there is caught and logged).
Notify(p) ==
    /\ pc[p] = "notify"
    /\ \E mailed \in BOOLEAN, created \in BOOLEAN, pushed \in BOOLEAN :
        /\ outbox' = IF mailed \/ (created /\ pushed)
                     THEN outbox \cup {Note(Me(p), op[p])}
                     ELSE outbox
        /\ nfail' = [nfail EXCEPT ![p] =
                        IF ~created THEN "inapp"
                        ELSE IF ~mailed THEN "email"
                        ELSE IF ~pushed THEN "websocket"
                        ELSE "none"]
        /\ IF ~created
           THEN /\ pushed
                /\ Finish(p, "Error")
                /\ obj' = Released(p, obj)
           ELSE /\ Goto(p, AfterNotify(p))
                /\ UNCHANGED <<txw, level, obj>>
    /\ UNCHANGED <<db, steps, bare, poFiles, nops>>
    /\ UNCHANGED dvars

\* generate_purchase_order: the file goes to storage, the metadata is saved
\* in the enclosing transaction; an error rolls the transaction back.
GeneratePO(p) ==
    /\ pc[p] = "po"
    /\ \E ok \in BOOLEAN :
        IF ok
        THEN /\ poFiles' = poFiles + 1
             /\ obj' = [obj EXCEPT ![ref[p]].purchase_order_metadata = "po"]
             /\ txw' = [txw EXCEPT ![p].row =
                           MergeFn(@, UpdateFields(obj'[ref[p]], {"purchase_order_metadata"}))]
             /\ Goto(p, "commit")
             /\ UNCHANGED level
        ELSE /\ Finish(p, "Error")
             /\ obj' = Released(p, obj)
             /\ UNCHANGED poFiles
    /\ UNCHANGED <<db, steps, bare, outbox, nfail, nops>>
    /\ UNCHANGED dvars

\* The outermost atomic block exits normally: every write becomes visible.
Commit(p) ==
    /\ pc[p] = "commit"
    /\ db' = ApplyRow(db, txw[p].row)
    /\ steps' = ApplySteps(steps, txw[p].steps)
    /\ bare' = ApplySteps(bare, txw[p].steps)
    /\ Finish(p, "ok")
    /\ obj' = Released(p, obj)
    /\ UNCHANGED <<outbox, poFiles, nfail, nops>>
    /\ UNCHANGED dvars

\* An error (database error, crash) after the step write and before the
\* operation returns: the atomic block rolls back.
Fail(p) ==
    /\ pc[p] \in {"save", "notify", "commit"}
    /\ Finish(p, "Error")
    /\ obj' = Released(p, obj)
    /\ UNCHANGED <<db, steps, bare, outbox, poFiles, nfail, nops>>
    /\ UNCHANGED dvars

Step(p) ==
    \/ Load(p)
    \/ ViewCheck(p)
    \/ PerformUpdate(p)
    \/ Check(p)
    \/ ReadLevel(p)
    \/ WriteStep(p)
    \/ Save(p)
    \/ Notify(p)
    \/ GeneratePO(p)
    \/ Commit(p)
    \/ Fail(p)

\* Concurrent callers: every interleaving of the callers' steps.
Next == \E p \in Procs : StartApi(p) \/ StartModel(p) \/ StartShared(p) \/ Step(p)

Spec == Init /\ [][Next]_vars

\* One operation at a time: a single caller, one operation after the other.
SeqCaller == "p1"

NextSeq == StartApi(SeqCaller) \/ StartModel(SeqCaller) \/ Step(SeqCaller)

SpecSeq == Init /\ [][NextSeq]_vars

\* Concurrent HTTP requests only: every interleaving of the endpoints' steps.
NextApi == \E p \in Procs : StartApi(p) \/ Step(p)

SpecApi == Init /\ [][NextApi]_vars

----------------------------------------------------------------------------
(* validate_receipt called on its own *)

\* the files storage holds for these document columns
StoredFiles(d) == {d.purchase_order[i] : i \in 1..Len(d.purchase_order)}

\* validate_receipt(receipt_file, po_metadata) called once by caller p with
\* the file it holds and the request's purchase_order_metadata
CallValidate(p) ==
    /\ pc[p] = "idle"
    /\ result[p] = "none"
    /\ payload' = [payload EXCEPT ![p] =
                      validate_receipt(upload[p], docs.purchase_order_metadata)]
    /\ extracted' = [extracted EXCEPT ![p] =
                        validate_receipt_calls(upload[p], docs.purchase_order_metadata)]
    /\ result' = [result EXCEPT ![p] = "ok"]
    /\ UNCHANGED <<db, steps, bare, outbox, poFiles, pc, op, via, actor, comment, ref,
                   obj, level, txw, nfail, nops>>
    /\ UNCHANGED <<docs, storage, validation_results, clock, upload>>

\* The arguments of the call: no file or a receipt; a request without
\* purchase order, with the purchase order generated from its proforma and
\* items, or with metadata set by hand.
InitValidate ==
    /\ InitWorkflow
    /\ docs \in DocInputs
               \cup {generate_purchase_order(d, {}, 0) : d \in DocInputs}
               \cup {[NewDocs EXCEPT !.purchase_order_metadata = PartialPO]}
    /\ storage = StoredFiles(docs)
    /\ validation_results = <<>>
    /\ clock = 0
    /\ upload \in [Procs -> ReceiptFiles \cup {NoFile}]
    /\ \A p \in Procs \ {SeqCaller} : upload[p] = NoFile
    /\ payload = [p \in Procs |-> EmptyDict]
    /\ extracted = [p \in Procs |-> {}]

NextValidate == CallValidate(SeqCaller)

SpecValidate == InitValidate /\ [][NextValidate]_vars

----------------------------------------------------------------------------
(* The purchase order generated by direct calls *)

\* generate_purchase_order(request_obj): the PDF goes to storage under a free
\* name, the request keeps that name and the new metadata
CallGenerate ==
    /\ nops < MaxOps
    /\ nops' = nops + 1
    /\ docs' = generate_purchase_order(docs, storage, clock)
    /\ storage' = storage \cup StoredFiles(docs')
    /\ UNCHANGED <<db, steps, bare, outbox, poFiles, pc, op, via, actor, comment, ref,
                   obj, level, txw, result, nfail>>
    /\ UNCHANGED <<validation_results, clock, upload, payload, extracted>>

\* time passes
Tick ==
    /\ clock < MaxClock
    /\ clock' = clock + 1
    /\ UNCHANGED wvars
    /\ UNCHANGED <<docs, storage, validation_results, upload, payload, extracted>>

\* A request with or without proforma metadata and line items, no purchase
\* order yet.
InitPO ==
    /\ InitWorkflow
    /\ InitCalls
    /\ docs \in DocInputs
    /\ storage = {}
    /\ validation_results = <<>>
    /\ clock = 0

NextPO == CallGenerate \/ Tick

SpecPO == InitPO /\ [][NextPO]_vars

----------------------------------------------------------------------------
(* extract_proforma_metadata called on its own *)

\* a JSON value as json.loads returns it: None, a list or an object
JsonNull == [type |-> "null", dict |-> EmptyDict, list |-> <<>>]

JsonList(l) == [type |-> "list", dict |-> EmptyDict, list |-> l]

JsonObject(d) == [type |-> "dict", dict |-> d, list |-> <<>>]

\* bool(value) of a JSON value
Truthy(j) ==
    CASE j.type = "dict" -> DOMAIN j.dict # {}
      [] j.type = "list" -> j.list # <<>>
      [] OTHER -> FALSE

\* the outcome of a call: the value it returns, or the exception it raises
Returns(v) == [raised |-> "none", value |-> v]

Raises(e) == [raised |-> e, value |-> JsonNull]

\* _extract_with_ai(text, prompt): None without OPENAI_API_KEY; the except
\* clause catches OpenAIError (its timeout included), JSONDecodeError,
\* KeyError and TypeError, so choices[0] of an empty list (IndexError) and
\* .strip() of a content that is None (AttributeError) leave the function
_extract_with_ai(text) ==
    LET ai == text.ai
    IN  IF ~ai.api_key THEN Returns(JsonNull)
        ELSE CASE ai.response = "OpenAIError" -> Returns(JsonNull)
               [] ai.response = "APITimeoutError" -> Returns(JsonNull)
               [] ai.response = "no_choices" -> Raises("IndexError")
               [] ai.response = "no_content" -> Raises("AttributeError")
               [] ai.response = "invalid_json" -> Returns(JsonNull)
               [] ai.response = "json" -> Returns(ai.json)

\* the metadata built from the AI's object
ai_metadata(ai_result) ==
    [vendor |-> Get(ai_result, "vendor", UnknownVendor),
     currency |-> Get(ai_result, "currency", "USD"),
     total_amount |-> str(Get(ai_result, "total_amount", Zero)),
     items |-> Get(ai_result, "items", <<>>),
     source |-> "proforma",
     extraction_method |-> "ai",
     extraction_error |-> FALSE]

\* re.search of the currency pattern: no match, or the three-letter code
currency_match(text) == Get(text, "currency", <<>>)

\* the items list built from the item lines the pattern finds
item_matches(text) ==
    [i \in 1..Len(text.items) |->
        [description |-> strip(text.items[i].description),
         quantity |-> text.items[i].quantity,
         unit_price |-> Decimal(RemoveCommas(text.items[i].unit_price))]]

\* `not total` of a Decimal or None: None and a Decimal equal to zero
NotTotal(total) == total = <<>> \/ total[1].coef = 0

\* mutant: the total is written only when one is found
regex_metadata_TotalWhenFound(text) ==
    LET total == _extract_number_from_text(text)
        found == [vendor |-> UnknownVendor, currency |-> "USD", items |-> <<>>,
                  source |-> "proforma", extraction_method |-> "regex",
                  extraction_error |-> TRUE]
    IN  IF total # <<>> THEN [total_amount |-> str(total[1])] @@ found ELSE found

\* the metadata of the regex fallback
regex_metadata(text) ==
    LET total == _extract_number_from_text(text)
    IN  [vendor |-> IF vendor_match(text) # <<>>
                    THEN strip(vendor_match(text)[1]) ELSE UnknownVendor,
         currency |-> IF currency_match(text) # <<>>
                      THEN currency_match(text)[1] ELSE "USD",
         total_amount |-> IF total # <<>> THEN str(total[1]) ELSE Zero,
         items |-> item_matches(text),
         source |-> "proforma",
         extraction_method |-> "regex",
         extraction_error |-> \/ text = EmptyText
                              \/ vendor_match(text) = <<>> /\ NotTotal(total)]

\* extract_proforma_metadata(uploaded_file): the AI is asked when the text is
\* not empty and its answer is used when it is a non-empty object; otherwise
\* the regex fallback, whose patterns raise no exception
extract_proforma_metadata(uploaded_file) ==
    LET text == _extract_text(uploaded_file)
    IN  IF text = EmptyText THEN Returns(regex_metadata(text))
        ELSE LET ai_result == _extract_with_ai(text)
             IN  IF ai_result.raised # "none" THEN Raises(ai_result.raised)
                 ELSE IF Truthy(ai_result.value) /\ ai_result.value.type = "dict"
                 THEN Returns(ai_metadata(ai_result.value.dict))
                 ELSE Returns(regex_metadata(text))

\* what the AI call meets: no credential, a failure of the API, a response
\* without choices or without content, a content that is not JSON, or JSON
AiFailures ==
    {"OpenAIError", "APITimeoutError", "no_choices", "no_content", "invalid_json"}

\* the JSON values the AI answers: lists, {}, a vendor only, a full answer
JsonValues ==
    {JsonList(<<>>), JsonList(<<1>>), JsonObject(EmptyDict),
     JsonObject("vendor" :> <<"B">>),
     JsonObject("vendor" :> <<"B">> @@ "currency" :> "EUR"
                @@ "total_amount" :> [coef |-> 1050, exp |-> 0]
                @@ "items" :> <<>>)}

AiOutcomes ==
    [api_key : {FALSE}, response : {"json"}, json : {JsonNull}]
    \cup [api_key : {TRUE}, response : AiFailures, json : {JsonNull}]
    \cup [api_key : {TRUE}, response : {"json"}, json : JsonValues]

\* proforma texts: empty, or no vendor label or "A "; no currency or "EUR";
\* no total or "0.00", "1,050.00"; no item line or one; and the AI's outcome
ProformaTexts ==
    {EmptyText} \cup
    [vendor : {<<>>, << <<"A", " ">> >>},
     currency : {<<>>, <<"EUR">>},
     total : {<<>>, <<Num(0, 2, FALSE)>>, <<Num(105000, 2, TRUE)>>},
     items : {<<>>, <<[description |-> <<" ", "a">>, quantity |-> 1,
                       unit_price |-> Num(100000, 2, TRUE)]>>},
     ai : AiOutcomes]

ProformaFiles == {[name |-> "proforma.pdf", text |-> t] : t \in ProformaTexts}

\* extract_proforma_metadata(uploaded_file) called once by caller p with the
\* file it holds
CallExtract(p) ==
    /\ pc[p] = "idle"
    /\ result[p] = "none"
    /\ LET r == extract_proforma_metadata(upload[p])
       IN  /\ payload' = [payload EXCEPT ![p] =
                             IF r.raised = "none" THEN r.value ELSE EmptyDict]
           /\ result' = [result EXCEPT ![p] =
                            IF r.raised = "none" THEN "ok" ELSE r.raised]
    /\ UNCHANGED <<db, steps, bare, outbox, poFiles, pc, op, via, actor, comment, ref,
                   obj, level, txw, nfail, nops>>
    /\ UNCHANGED <<docs, storage, validation_results, clock, upload, extracted>>

\* The argument of the call: no file or a proforma.
InitExtract ==
    /\ InitWorkflow
    /\ docs = NewDocs
    /\ storage = {}
    /\ validation_results = <<>>
    /\ clock = 0
    /\ upload \in [Procs -> ProformaFiles \cup {NoFile}]
    /\ \A p \in Procs \ {SeqCaller} : upload[p] = NoFile
    /\ payload = [p \in Procs |-> EmptyDict]
    /\ extracted = [p \in Procs |-> {}]

NextExtract == CallExtract(SeqCaller)

SpecExtract == InitExtract /\ [][NextExtract]_vars

----------------------------------------------------------------------------
(* Receipt submission *)

OtherStaff == "staff2"

\* ReceiptUploadSerializer.validate_receipt: the name ends with .pdf, .png,
\* .jpg or .jpeg
HasReceiptExtension(name) == name \in {"receipt.pdf", "receipt.png"}

\* the files the callers send: a receipt that agrees with the purchase order
\* (total "1000", item "a" x1 @ 10.0), one that does not (total "999.50", no
\* item), and a file of another type
ReceiptUploads ==
    {[name |-> "receipt.pdf",
      text |-> [vendor |-> <<>>, total |-> <<Num(1000, 0, FALSE)>>,
                items |-> <<[description |-> <<"a">>, quantity |-> 1,
                             unit_price |-> [coef |-> 100, exp |-> 1]]>>,
                ai_items |-> <<>>]],
     [name |-> "receipt.png",
      text |-> [vendor |-> <<>>, total |-> <<Num(99950, 2, FALSE)>>,
                items |-> <<>>, ai_items |-> <<>>]],
     [name |-> "receipt.exe", text |-> EmptyText]}

\* mutant: the status of the request is not looked at
ReceiptDenial_AnyStatus(o, u, f) ==
    IF o.created_by # u THEN "PermissionDenied"
    ELSE IF ~HasReceiptExtension(f.name) THEN "ValidationError"
    ELSE ""

\* the error submit_receipt raises before it stores anything, "" if none:
\* the owner check, the status check, serializer.is_valid
ReceiptDenial(o, u, f) ==
    IF o.created_by # u THEN "PermissionDenied"
    ELSE IF o.status # "APPROVED" THEN "ValidationError"
    ELSE IF ~HasReceiptExtension(f.name) THEN "ValidationError"
    ELSE ""

\* An HTTP request to the submit-receipt endpoint.
StartReceipt(p) ==
    /\ \E u \in Users, f \in ReceiptUploads :
        /\ Begin(p, "receipt", "api", u, "", p, "load")
        /\ upload' = [upload EXCEPT ![p] = f]
    /\ UNCHANGED <<docs, storage, validation_results, clock, payload, extracted>>

\* the request's locals are gone once it has returned
EndReceipt(p) ==
    /\ upload' = [upload EXCEPT ![p] = NoFile]
    /\ payload' = [payload EXCEPT ![p] = EmptyDict]
    /\ extracted' = [extracted EXCEPT ![p] = {}]

\* submit_receipt up to serializer.save(): owner, status and file checks
ReceiptGate(p) ==
    /\ pc[p] = "perm"
    /\ op[p] = "receipt"
    /\ IF ReceiptDenial(Me(p), actor[p], upload[p]) # ""
       THEN /\ Finish(p, ReceiptDenial(Me(p), actor[p], upload[p]))
            /\ obj' = Released(p, obj)
            /\ EndReceipt(p)
       ELSE /\ Goto(p, "rsave")
            /\ UNCHANGED <<txw, level, obj, upload, payload, extracted>>
    /\ UNCHANGED <<db, steps, bare, outbox, poFiles, nfail, nops>>
    /\ UNCHANGED <<docs, storage, validation_results, clock>>

\* request_obj.receipt = receipt_file; request_obj.save(update_fields=["receipt"])
SaveReceipt(p) ==
    /\ pc[p] = "rsave"
    /\ docs' = [docs EXCEPT !.receipt = upload[p]]
    /\ Goto(p, "rvalidate")
    /\ UNCHANGED <<db, steps, bare, outbox, poFiles, obj, level, txw, nfail, nops>>
    /\ UNCHANGED <<storage, validation_results, clock, upload, payload, extracted>>

\* validation_payload = validate_receipt(request_obj.receipt,
\* request_obj.purchase_order_metadata), on the fetched instance
ValidateReceipt(p) ==
    /\ pc[p] = "rvalidate"
    /\ payload' = [payload EXCEPT ![p] =
                      validate_receipt(upload[p], docs.purchase_order_metadata)]
    /\ extracted' = [extracted EXCEPT ![p] =
                        validate_receipt_calls(upload[p], docs.purchase_order_metadata)]
    /\ Goto(p, "rsnapshot")
    /\ UNCHANGED <<db, steps, bare, outbox, poFiles, obj, level, txw, nfail, nops>>
    /\ UNCHANGED <<docs, storage, validation_results, clock, upload>>

\* request_obj.receipt_validation = validation_payload;
\* request_obj.save(update_fields=["receipt_validation"])
SaveValidation(p) ==
    /\ pc[p] = "rsnapshot"
    /\ docs' = [docs EXCEPT !.receipt_validation = payload[p]]
    /\ Goto(p, "rupsert")
    /\ UNCHANGED <<db, steps, bare, outbox, poFiles, obj, level, txw, nfail, nops>>
    /\ UNCHANGED <<storage, validation_results, clock, upload, payload, extracted>>

\* ReceiptValidationResult.objects.update_or_create(request=request_obj, ...)
UpsertResult(p) ==
    /\ pc[p] = "rupsert"
    /\ validation_results' = update_or_create(validation_results, ResultRow(payload[p]))
    /\ Goto(p, "rnotify")
    /\ UNCHANGED <<db, steps, bare, outbox, poFiles, obj, level, txw, nfail, nops>>
    /\ UNCHANGED <<docs, storage, clock, upload, payload, extracted>>

\* send_receipt_submitted_notification and create_notification_for_user: the
\* Notification rows are created (an error there reaches the caller), the
\* email and the WebSocket push are sent or their failure is logged
NotifyReceipt(p) ==
    /\ pc[p] = "rnotify"
    /\ \E created \in BOOLEAN, delivered \in BOOLEAN :
        /\ ~created => ~delivered
        /\ outbox' = IF delivered
                     THEN outbox \cup {[event |-> "receipt-submitted",
                                        level |-> Me(p).current_approval_level]}
                     ELSE outbox
        /\ Finish(p, IF created THEN "ok" ELSE "Error")
    /\ obj' = Released(p, obj)
    /\ EndReceipt(p)
    /\ UNCHANGED <<db, steps, bare, poFiles, nfail, nops>>
    /\ UNCHANGED <<docs, storage, validation_results, clock>>

StepReceipt(p) ==
    \/ Load(p)
    \/ ReceiptGate(p)
    \/ SaveReceipt(p)
    \/ ValidateReceipt(p)
    \/ SaveValidation(p)
    \/ UpsertResult(p)
    \/ NotifyReceipt(p)

\* the request after both levels approved it
ApprovedRequest ==
    ApprovedObj(ApprovedObj(NewRequest, 1, "l1"), required_approval_levels, "l2")

\* the steps after both levels approved
ApprovedSteps ==
    ApplySteps(ApplySteps(SeededSteps, ApproveStepWrites(1, "l1", "c")),
               ApproveStepWrites(required_approval_levels, "l2", "c"))

\* the states a request is in when a receipt arrives: pending; rejected at
\* level 1; approved by direct calls of mark_approved (no purchase order);
\* approved through the endpoint (purchase order generated)
ReceiptScenes ==
    {[db |-> NewRequest, steps |-> SeededSteps, poFiles |-> 0, docs |-> d] :
        d \in {x \in DocInputs : x.items # <<>> /\ DOMAIN x.proforma_metadata = {}}}
    \cup
    {[db |-> RejectedObj(NewRequest, "l1"),
      steps |-> ApplySteps(SeededSteps, RejectStepWrites(1, "l1", "c")),
      poFiles |-> 0, docs |-> d] :
        d \in {x \in DocInputs : x.items # <<>> /\ DOMAIN x.proforma_metadata = {}}}
    \cup
    {[db |-> ApprovedRequest, steps |-> ApprovedSteps, poFiles |-> 0, docs |-> d] :
        d \in {x \in DocInputs : x.items # <<>> /\ DOMAIN x.proforma_metadata = {}}}
    \cup
    {[db |-> [ApprovedRequest EXCEPT !.purchase_order_metadata = "po"],
      steps |-> ApprovedSteps, poFiles |-> 1,
      docs |-> generate_purchase_order(d, {}, 0)] :
        d \in {x \in DocInputs : x.items # <<>> /\ DOMAIN x.proforma_metadata = {}}}

\* A request of the owner or of another staff user, in one of these states.
InitReceipt ==
    /\ \E scene \in ReceiptScenes, creator \in {Owner, OtherStaff} :
        /\ db = [scene.db EXCEPT !.created_by = creator]
        /\ steps = scene.steps
        /\ bare = DecidedSteps(scene.steps)
        /\ poFiles = scene.poFiles
        /\ docs = scene.docs
        /\ obj = [p \in Procs |-> NewRequest]
    /\ storage = StoredFiles(docs)
    /\ outbox = {}
    /\ pc = [p \in Procs |-> "idle"]
    /\ op = [p \in Procs |-> "none"]
    /\ via = [p \in Procs |-> "model"]
    /\ actor = [p \in Procs |-> NoUser]
    /\ comment = [p \in Procs |-> ""]
    /\ ref = [p \in Procs |-> p]
    /\ level = [p \in Procs |-> 0]
    /\ txw = [p \in Procs |-> EmptyTx]
    /\ result = [p \in Procs |-> "none"]
    /\ nfail = [p \in Procs |-> "none"]
    /\ nops = 0
    /\ InitCalls
    /\ validation_results = <<>>
    /\ clock = 0

\* Concurrent submit-receipt requests: every interleaving of their steps.
NextReceipt == \E p \in Procs : StartReceipt(p) \/ StepReceipt(p)

SpecReceipt == InitReceipt /\ [][NextReceipt]_vars

----------------------------------------------------------------------------
(* Properties *)

\* caller p's transaction commits an operation o in this step
Commits(p, o) == pc[p] = "commit" /\ op[p] = o /\ pc'[p] = "idle" /\ result'[p] = "ok"

\* C1 Monotonic leveling: over any sequence of approve, reject and update
\* operations the stored current_approval_level never decreases; a successful
\* approve below required_approval_levels raises it by exactly 1 and leaves
\* the status PENDING; a successful approve at required_approval_levels leaves
\* it unchanged and sets the status APPROVED; a reject never changes it.
MonotonicLeveling ==
    [][/\ db'.current_approval_level >= db.current_approval_level
       /\ \A p \in Procs :
            /\ Commits(p, "approve") =>
                 IF db.current_approval_level < required_approval_levels
                 THEN /\ db'.current_approval_level = db.current_approval_level + 1
                      /\ db'.status = "PENDING"
                 ELSE /\ db.current_approval_level = required_approval_levels
                      /\ db'.current_approval_level = db.current_approval_level
                      /\ db'.status = "APPROVED"
            /\ Commits(p, "reject") =>
                 db'.current_approval_level = db.current_approval_level]_vars

\* C1 witness: both levels were approved, one after the other
MonotonicLevelingWitness ==
    /\ db.status = "APPROVED"
    /\ db.current_approval_level = required_approval_levels
    /\ \A k \in 1..required_approval_levels : steps[k].decision = "APPROVED"

\* C2 Terminal immutability: once the stored status is APPROVED or REJECTED,
\* every further approve or reject fails with a domain error and leaves the
\* request row and every ApprovalStep unchanged.
TerminalImmutability ==
    [][\A p \in Procs :
        (op[p] \in Decisions /\ pc[p] # "idle" /\ db.status \in Terminal) =>
            /\ db' = db
            /\ steps' = steps
            /\ pc'[p] \in {"idle", "check"}
            /\ pc'[p] = "idle" => result'[p] \in DomainErrors]_vars

\* C2 witness: mark_approved / mark_rejected raised on a terminal request
TerminalImmutabilityWitness ==
    \E p \in Procs : result[p] = "ValueError" /\ pc[p] = "idle" /\ db.status \in Terminal

\* C3 Rejection short-circuit: a successful reject at the current level k sets
\* the status REJECTED, marks step k REJECTED and leaves every other step as
\* it was; the steps above the level of a REJECTED request stay PENDING.
RejectionShortCircuit ==
    [][/\ \A p \in Procs :
            Commits(p, "reject") =>
                LET k == db.current_approval_level
                IN  /\ k \in 1..required_approval_levels
                    /\ db'.status = "REJECTED"
                    /\ DOMAIN steps' = DOMAIN steps
                    /\ steps'[k].decision = "REJECTED"
                    /\ \A j \in DOMAIN steps \ {k} : steps'[j] = steps[j]
       /\ db'.status = "REJECTED" =>
            \A j \in DOMAIN steps' :
                j > db'.current_approval_level => steps'[j].decision = "PENDING"]_vars

\* C3 witness: a rejection at level 1 was committed, level 2 is still PENDING
RejectionShortCircuitWitness ==
    /\ db.status = "REJECTED"
    /\ db.current_approval_level = 1
    /\ steps[1].decision = "REJECTED"
    /\ steps[2].decision = "PENDING"

\* C4 No lost update under concurrent approval: every successful approve of
\* a PENDING request accounts for exactly one level advance (the step of the
\* stored current level becomes APPROVED and the level moves on, or, at the
\* last level, the status becomes APPROVED), and the level never exceeds
\* required_approval_levels.
NoLostUpdate ==
    [][\A p \in Procs :
        (Commits(p, "approve") /\ db.status = "PENDING") =>
            LET k == db.current_approval_level
            IN  /\ k \in DOMAIN steps' /\ steps'[k].decision = "APPROVED"
                /\ db'.current_approval_level <= required_approval_levels
                /\ IF k < required_approval_levels
                   THEN db'.current_approval_level = k + 1 /\ db'.status = "PENDING"
                   ELSE db'.status = "APPROVED"]_vars

\* C5 Terminal states are absorbing under concurrency: a committing approve
\* or reject never changes a stored status that is already APPROVED or
\* REJECTED.
TerminalAbsorbing ==
    [][\A p \in Procs :
        (pc[p] = "commit" /\ op[p] \in Decisions /\ pc'[p] = "idle" /\ is_terminal(db))
            => db'.status = db.status]_vars

\* C6 Atomic decision: the stored state never holds a step decision without
\* the level / status change that goes with it, nor the reverse, also while
\* an operation is in flight and after it has failed.
AtomicDecision ==
    \A k \in DOMAIN steps :
        /\ steps[k].decision = "APPROVED" <=>
              \/ db.current_approval_level > k
              \/ db.status = "APPROVED" /\ db.current_approval_level = k
        /\ steps[k].decision = "REJECTED" <=>
              (db.status = "REJECTED" /\ db.current_approval_level = k)

\* C6 witness: an approve or reject failed after its step write and nothing
\* of it is stored
AtomicDecisionWitness ==
    \E p \in Procs :
        /\ pc[p] = "idle" /\ result[p] = "Error"
        /\ db = NewRequest
        /\ steps = SeededSteps

\* what has to be stored for a notification to be true
Reported(n) ==
    CASE n.event = "level-approved" ->
            n.level \in DOMAIN steps /\ steps[n.level].decision = "APPROVED"
      [] n.event = "fully-approved" -> db.status = "APPROVED"
      [] n.event = "rejected" -> db.status = "REJECTED"

\* C7 Notify after commit: every notification that has left the system
\* reports a state change that is committed.
NotifyAfterCommit == \A n \in outbox : Reported(n)

\* C8 Best-effort notification: a notification step that fails neither ends
\* the operation with a failure nor rolls back its writes.
BestEffortNotification ==
    [][\A p \in Procs :
        (pc[p] = "notify" /\ nfail'[p] # "none") =>
            /\ pc'[p] # "idle"
            /\ txw'[p] = txw[p]]_vars

\* C9 Strict level ordering at the API: an approve or reject by a user whose
\* role is not the one the request's current level requires is denied and
\* changes nothing; a level is decided only when the level below is APPROVED.
StrictLevelOrdering ==
    [][/\ \A p \in Procs :
            (pc[p] = "perm" /\ op[p] \in Decisions
                /\ Roles[actor[p]] # WORKFLOW_ROLES[Me(p).current_approval_level]) =>
                /\ pc'[p] = "idle"
                /\ result'[p] \in WrongLevel
                /\ db' = db
                /\ steps' = steps
       /\ \A k \in DOMAIN steps' :
            (k > 1 /\ steps'[k].decision # "PENDING") =>
                steps'[k - 1].decision = "APPROVED"]_vars

\* C9 witness: an APPROVER_L2 was turned away from a request at level 1
StrictLevelOrderingWitness ==
    \E p \in Procs :
        /\ pc[p] = "idle" /\ result[p] = "PermissionDenied: wait for L1"
        /\ db.current_approval_level = 1 /\ db.status = "PENDING"

\* C10 Purchase-order generation is tied to final approval: the stored
\* purchase_order_metadata is populated exactly when the status is APPROVED,
\* and the purchase order is generated at most once per request.
PurchaseOrderOnFinalApproval ==
    /\ db.purchase_order_metadata # "{}" <=> db.status = "APPROVED"
    /\ poFiles <= 1

----------------------------------------------------------------------------
(* Properties of validate_receipt *)

\* caller p holds the result of a validate_receipt call
Validated(p) == DOMAIN payload[p] # {}

\* one of the two inputs of p's call is missing
InputAbsent(p) == upload[p].name = "" \/ DOMAIN docs.purchase_order_metadata = {}

\* two amounts denote the same number
SameValue(a, b) == a.coef * Pow10(b.exp) = b.coef * Pow10(a.exp)

\* the trimmed, case-folded form of a text
Folded(s) == strip(lower(s))

\* C13 For every result of validate_receipt, on the missing-input path too,
\* is_valid is true if and only if mismatches is empty.
ValidIffNoMismatch ==
    \A p \in Procs :
        Validated(p) => (payload[p].is_valid <=> DOMAIN payload[p].mismatches = {})

\* C13 witness: a receipt with a vendor label and a total was checked against
\* a purchase order and found valid
ValidIffNoMismatchWitness ==
    \E p \in Procs :
        /\ Validated(p)
        /\ ~InputAbsent(p)
        /\ upload[p].text.vendor # <<>>
        /\ upload[p].text.total # <<>>
        /\ payload[p].is_valid

\* C14 When the receipt file or the PO metadata is absent, validate_receipt
\* returns a result that is not valid, runs no extraction, and its reason
\* tells which input was absent: it is not the reason given when only the
\* other input is absent.
MissingInputExplained ==
    \A p \in Procs :
        Validated(p) /\ InputAbsent(p) =>
            /\ ~payload[p].is_valid
            /\ extracted[p] = {}
            /\ "reason" \in DOMAIN payload[p].mismatches
            /\ \A f \in ReceiptFiles :
                  (upload[p].name = "" /\ DOMAIN docs.purchase_order_metadata # {}) =>
                      payload[p].mismatches.reason
                          # validate_receipt(f, EmptyDict).mismatches.reason

\* C15 Item reconciliation: with PO items and receipt items, mismatches.items
\* lists exactly the PO items without a receipt item of equal folded
\* description, quantity and price value, and is absent when there is none;
\* with PO items and no receipt item it is the single "no items found" entry;
\* without PO items it is absent.
ItemReconciliation ==
    \A p \in Procs :
        Validated(p) /\ ~InputAbsent(p) =>
            LET po_items == Get(docs.purchase_order_metadata, "items", <<>>)
                receipt_items == _extract_items_from_text(upload[p].text)
                m == payload[p].mismatches
                matched(i) ==
                    \E j \in 1..Len(receipt_items) :
                        /\ Folded(po_items[i].description)
                               = Folded(receipt_items[j].description)
                        /\ po_items[i].quantity = receipt_items[j].quantity
                        /\ SameValue(po_items[i].unit_price, receipt_items[j].unit_price)
                unmatched == {i \in 1..Len(po_items) : ~matched(i)}
            IN  IF po_items = <<>> THEN "items" \notin DOMAIN m
                ELSE IF receipt_items = <<>>
                THEN /\ "items" \in DOMAIN m
                     /\ m.items = <<[reason |-> "No items found in receipt"]>>
                ELSE IF unmatched = {} THEN "items" \notin DOMAIN m
                ELSE /\ "items" \in DOMAIN m
                     /\ Len(m.items) = Cardinality(unmatched)
                     /\ \A k \in 1..Len(m.items) :
                            m.items[k].reason = "No matching item in receipt"
                     /\ \A i \in unmatched :
                            \E k \in 1..Len(m.items) : m.items[k].expected = po_items[i]

\* C15 witness: a PO with two items, a receipt in which one of them is found
\* under a description that differs in case and surrounding blanks
ItemReconciliationWitness ==
    \E p \in Procs :
        /\ Validated(p)
        /\ ~InputAbsent(p)
        /\ Len(Get(docs.purchase_order_metadata, "items", <<>>)) = 2
        /\ Len(upload[p].text.items) = 1
        /\ "items" \in DOMAIN payload[p].mismatches
        /\ Len(payload[p].mismatches.items) = 1
        /\ payload[p].mismatches.items[1].expected.description = <<"b">>

\* C16 Amount reconciliation: mismatches.amount is recorded if and only if a
\* total was found and its value differs from the PO's total_amount, with
\* expected the PO's total_amount and actual the receipt's total; totals that
\* differ only in the way they are written give no mismatch.
AmountReconciliation ==
    \A p \in Procs :
        Validated(p) /\ ~InputAbsent(p) =>
            LET po_total == Get(docs.purchase_order_metadata, "total_amount", Zero)
                found == upload[p].text.total
                m == payload[p].mismatches
            IN  /\ "amount" \in DOMAIN m <=>
                       (found # <<>> /\ ~SameValue(found[1], po_total))
                /\ "amount" \in DOMAIN m =>
                       /\ m.amount.expected = po_total
                       /\ m.amount.actual = RemoveCommas(found[1])

\* C16 witness: the receipt says "1,050.00", the purchase order "1050", and
\* no amount mismatch is recorded
AmountReconciliationWitness ==
    \E p \in Procs :
        /\ Validated(p)
        /\ ~InputAbsent(p)
        /\ upload[p].text.total = <<Num(105000, 2, TRUE)>>
        /\ docs.purchase_order_metadata.total_amount = Num(1050, 0, FALSE)
        /\ "amount" \notin DOMAIN payload[p].mismatches

\* C17 Vendor reconciliation: mismatches.vendor is recorded if and only if a
\* vendor label was found and its value differs from the PO's vendor, both
\* compared case-insensitively after trimming surrounding whitespace.
VendorReconciliation ==
    \A p \in Procs :
        Validated(p) /\ ~InputAbsent(p) =>
            LET po_vendor == Get(docs.purchase_order_metadata, "vendor", <<>>)
                found == upload[p].text.vendor
            IN  "vendor" \in DOMAIN payload[p].mismatches <=>
                    (found # <<>> /\ Folded(found[1]) # Folded(po_vendor))

----------------------------------------------------------------------------
(* Properties of the purchase order *)

\* this step is a call of generate_purchase_order
Generates == nops' = nops + 1 /\ storage' # storage

\* C18 Purchase-order item source: the PO items are the proforma_metadata's
\* items when that list is non-empty, else the request's own line items, so a
\* request with a line item never has a generated PO without items.
ItemSource ==
    DOMAIN docs.purchase_order_metadata # {} =>
        LET proforma_items == Get(docs.proforma_metadata, "items", <<>>)
        IN  /\ docs.purchase_order_metadata.items =
                   IF proforma_items # <<>> THEN proforma_items
                   ELSE LineItems(docs.items)
            /\ docs.items # <<>> => docs.purchase_order_metadata.items # <<>>

----------------------------------------------------------------------------
(* Properties of receipt submission *)

\* C11 Receipt submission gate: a submit_receipt that succeeds was sent by the
\* request's creator for an APPROVED request; any other submit_receipt ends
\* with a domain error and changes neither the stored receipt, nor the
\* receipt_validation snapshot, nor the ReceiptValidationResult rows.
ReceiptSubmissionGate ==
    [][\A p \in Procs :
        (op[p] = "receipt" /\ pc'[p] # pc[p]) =>
            /\ (pc'[p] = "idle" /\ result'[p] = "ok") =>
                   (actor[p] = db.created_by /\ db.status = "APPROVED")
            /\ (actor[p] # db.created_by \/ db.status # "APPROVED") =>
                   /\ docs'.receipt = docs.receipt
                   /\ docs'.receipt_validation = docs.receipt_validation
                   /\ validation_results' = validation_results
                   /\ pc'[p] \in {"idle", "perm"}
                   /\ pc'[p] = "idle" => result'[p] \in DomainErrors]_vars

\* C11 witness: the owner's receipt for a PENDING request was refused and
\* nothing is stored
ReceiptSubmissionGateWitness ==
    \E p \in Procs :
        /\ pc[p] = "idle"
        /\ result[p] = "ValidationError"
        /\ db.created_by = Owner
        /\ db.status = "PENDING"
        /\ docs.receipt = NoFile
        /\ validation_results = <<>>

\* C12 Validation upsert: once receipts have been submitted successfully and
\* no submission is in flight, there is exactly one ReceiptValidationResult,
\* its is_valid and mismatches are those of the receipt_validation snapshot,
\* and both are the validation of the stored receipt.
ValidationUpsert ==
    (Quiescent /\ docs.receipt # NoFile /\ \A p \in Procs : result[p] \in {"ok", "none"}) =>
        /\ Len(validation_results) = 1
        /\ validation_results[1] = ResultRow(docs.receipt_validation)
        /\ docs.receipt_validation
               = validate_receipt(docs.receipt, docs.purchase_order_metadata)

----------------------------------------------------------------------------
(* Properties of the approval steps *)

\* C20 Approval-step lifecycle: a created request has exactly one step per
\* level 1..required_approval_levels, each PENDING and without approver;
\* there is always exactly one step per level; a step whose decision has left
\* PENDING is never modified again.
StepLifecycle ==
    /\ \A k \in 1..required_approval_levels :
           steps[k].decision = "PENDING" /\ steps[k].approver = NoUser
    /\ [](DOMAIN steps = 1..required_approval_levels)
    /\ [][\A k \in DOMAIN steps :
              steps[k].decision # "PENDING" => steps'[k] = steps[k]]_vars

----------------------------------------------------------------------------
(* Properties of extract_proforma_metadata *)

\* the keys every record of extract_proforma_metadata has
MetadataKeys ==
    {"vendor", "currency", "total_amount", "items", "extraction_method",
     "extraction_error"}

\* the AI call of p's text returned a JSON object
AiObject(p) ==
    LET text == _extract_text(upload[p])
    IN  /\ text # EmptyText
        /\ text.ai.api_key
        /\ text.ai.response = "json"
        /\ text.ai.json.type = "dict"

\* C21 Total record with defaults: every record extract_proforma_metadata
\* returns, for the empty text too, has vendor, currency, total_amount, items,
\* extraction_method and extraction_error; on the regex path a field that is
\* not found takes its default: "Unknown Vendor", "USD", "0", the empty list.
TotalRecordWithDefaults ==
    \A p \in Procs :
        result[p] = "ok" =>
            LET text == _extract_text(upload[p])
                m == payload[p]
            IN  /\ MetadataKeys \subseteq DOMAIN m
                /\ m.extraction_method = "regex" =>
                      /\ vendor_match(text) = <<>> =>
                            m.vendor = <<"U", "n", "k", "n", "o", "w", "n", " ",
                                         "V", "e", "n", "d", "o", "r">>
                      /\ currency_match(text) = <<>> => m.currency = "USD"
                      /\ text.total = <<>> => m.total_amount = Num(0, 0, FALSE)
                      /\ text.items = <<>> => m.items = <<>>

\* C21 witness: a text that is not empty, with no vendor label, no currency,
\* no total and no item line, went through the regex path
TotalRecordWithDefaultsWitness ==
    \E p \in Procs :
        /\ result[p] = "ok"
        /\ upload[p].name # ""
        /\ upload[p].text # EmptyText
        /\ upload[p].text.vendor = <<>>
        /\ upload[p].text.currency = <<>>
        /\ upload[p].text.total = <<>>
        /\ upload[p].text.items = <<>>
        /\ payload[p].extraction_method = "regex"
        /\ payload[p].total_amount = Zero

\* C22 AI failure is absorbed: whatever the AI call meets,
\* extract_proforma_metadata returns; unless the AI returned a JSON object
\* the record is the regex record of the text; extraction_method is "ai" only
\* when the AI returned a JSON object.
AiFailureAbsorbed ==
    \A p \in Procs :
        result[p] # "none" =>
            /\ result[p] = "ok"
            /\ ~AiObject(p) => payload[p] = regex_metadata(_extract_text(upload[p]))
            /\ payload[p].extraction_method = "ai" => AiObject(p)

\* C27 Extraction-error flag on the regex path: extraction_error is true
\* exactly when the text is empty or neither a vendor nor a total is located
\* in it; a located total of value zero counts as located.
ExtractionErrorFlag ==
    \A p \in Procs :
        result[p] = "ok" /\ payload[p].extraction_method = "regex" =>
            LET text == _extract_text(upload[p])
            IN  payload[p].extraction_error
                    <=> \/ text = EmptyText
                        \/ vendor_match(text) = <<>>
                           /\ _extract_number_from_text(text) = <<>>

----------------------------------------------------------------------------
(* Properties of updates, of the last actor and of the steps *)

\* caller p's update ends in this step
UpdateEnds(p) == op[p] = "update" /\ pc[p] # "idle" /\ pc'[p] = "idle"

\* C23 Edit gate: with one operation at a time, an update succeeds only when
\* the caller is the creator and the request is PENDING; an update of an
\* APPROVED or REJECTED request is refused and leaves the row and the
\* RequestItems as they were.
EditGate ==
    [][\A p \in Procs :
          UpdateEnds(p) =>
              /\ result'[p] = "ok" =>
                    actor[p] = db.created_by /\ db.status = "PENDING"
              /\ db.status \in Terminal =>
                    result'[p] # "ok" /\ db' = db /\ docs' = docs]_vars

\* C23 witness: the owner's update of a terminal request, its title and items
\* never updated before, was refused
EditGateWitness ==
    /\ result[SeqCaller] = "ValidationError"
    /\ db.status \in Terminal
    /\ db.title = NewRequest.title
    /\ docs.items = <<>>

UpdateKeepsDecision ==
    [][\A p \in Procs :
          UpdateEnds(p) /\ result'[p] = "ok" =>
              /\ db'.status = db.status
              /\ db'.current_approval_level = db.current_approval_level
              /\ db'.approved_by = db.approved_by]_vars

\* C26 Pre-seeding is not needed: after every sequence of approve and reject
\* operations the request created without steps has exactly the decided
\* steps of the pre-seeded request, with the same decision, approver and
\* metadata (the row's status, level and approved_by depend on no step).
PreSeedingIrrelevant == bare = DecidedSteps(steps)

\* C26 witness: both steps of the request created without steps were created,
\* the last one by a rejection
PreSeedingIrrelevantWitness ==
    /\ DOMAIN bare = 1..required_approval_levels
    /\ bare[required_approval_levels].decision = "REJECTED"
    /\ bare[1].decision = "APPROVED"

\* C28 Step/state consistency: with one operation at a time and k the current
\* level, a PENDING request has every step below k APPROVED and the others
\* PENDING; an APPROVED request has every step APPROVED; a REJECTED request
\* has every step below k APPROVED, step k REJECTED and the others PENDING.
StepStateConsistency ==
    LET k == db.current_approval_level
        n == required_approval_levels
    IN  /\ DOMAIN steps = 1..n
        /\ db.status = "PENDING" =>
              /\ \A j \in 1..(k - 1) : steps[j].decision = "APPROVED"
              /\ \A j \in k..n : steps[j].decision = "PENDING"
        /\ db.status = "APPROVED" =>
              \A j \in 1..n : steps[j].decision = "APPROVED"
        /\ db.status = "REJECTED" =>
              /\ \A j \in 1..(k - 1) : steps[j].decision = "APPROVED"
              /\ steps[k].decision = "REJECTED"
              /\ \A j \in (k + 1)..n : steps[j].decision = "PENDING"

\* C28 witness: a request pending at the final level after the first approval
StepStateConsistencyWitness ==
    /\ db.status = "PENDING"
    /\ db.current_approval_level = required_approval_levels
    /\ steps[1].decision = "APPROVED"
    /\ Quiescent

DecisionAttribution ==
    \A k \in DOMAIN steps :
        steps[k].decision \in Terminal =>
            /\ k \in 1..Len(WORKFLOW_ROLES)
            /\ Roles[steps[k].approver] = WORKFLOW_ROLES[k]

\* C30 witness: a rejection of level 1 that was overtaken by both approvals
\* committed after them
DecisionAttributionWitness ==
    /\ steps[1].decision = "REJECTED"
    /\ steps[required_approval_levels].decision = "APPROVED"
    /\ Roles[steps[1].approver] = WORKFLOW_ROLES[1]

====
